---------------------------- MODULE Spec2Model ----------------------------
(***************************************************************************)
(* NystromD: the dimension-subsampled Nystrom estimator of the kernel      *)
(* exponential family (shogun, distributions/kernel_exp_family/impl).      *)
(*                                                                         *)
(* The estimator object is modelled by its fields (m_data, m_basis,        *)
(* m_basis_inds, m_beta); every public method is one action that leaves    *)
(* its return value in ret.  Matrices and vectors keep the layout of       *)
(* SGMatrix / SGVector: a matrix is [num_rows, num_cols, matrix] with the  *)
(* column-major flat array matrix[c*num_rows + r], indices from 0.         *)
(* float64 values are modelled by integers; the 1/N_data scaling of        *)
(* compute_h is kept as an explicit denominator.                           *)
(***************************************************************************)
EXTENDS Integers, Sequences, FiniteSets, TLC

VARIABLES
    pc,             \* "new" | "built" | "fitted" | "static"
    args,           \* the caller's constructor arguments
    m_data,         \* SGMatrix: training data, D x N
    m_basis,        \* SGMatrix: basis points, D x N_basis
    m_basis_inds,   \* SGVector<index_t>: active flat basis components
    m_beta,         \* SGVector: coefficients, set by fit
    mask_arg,       \* the mask handed to the last set_basis_inds_from_mask
    warnings,       \* points named by SG_SWARNING, in order of emission
    ret,            \* the last call: [op, arg, val]
    omp             \* the running omp parallel for: iterations done, output so far

vars == <<pc, args, m_data, m_basis, m_basis_inds, m_beta, mask_arg, warnings, ret, omp>>

----------------------------------------------------------------------------
(* Bounds of the model *)

\* largest mask / data matrix: num_rows * num_cols <= MaxComponents
MaxComponents == 6
\* coefficient vectors tried by fit: seeds 0..MaxBetaSeed
MaxBetaSeed == 0
\* arguments tried for the static idx_to_ai
MaxIdx == 30
MaxDimArg == 4
\* ill-shaped constructor arguments: matrices of at most MaxShapeComponents entries
MaxShapeComponents == 3

----------------------------------------------------------------------------
(* SGMatrix / SGVector *)

Range(n) == 0 .. (n - 1)

\* a rows x cols matrix holding f[r, c] at (r, c)
SGMatrix(rows, cols, f) ==
    [num_rows |-> rows, num_cols |-> cols,
     matrix |-> [p \in Range(rows * cols) |-> f[p % rows, p \div rows]]]

\* a vector of len entries holding f[p] at p
SGVector(len, f) ==
    [vlen |-> len, vector |-> [p \in Range(len) |-> f[p]]]

\* operator()(row, col) of SGMatrix: column-major
MatAt(m, r, c) == m.matrix[c * m.num_rows + r]

EmptyMatrix == [num_rows |-> 0, num_cols |-> 0, matrix |-> << >>]
EmptyVector == [vlen |-> 0, vector |-> << >>]

\* a read that may fall outside the matrix yields oob (whatever the memory holds)
MatRead(m, r, c, oob) ==
    IF r \in Range(m.num_rows) /\ c \in Range(m.num_cols) THEN MatAt(m, r, c) ELSE oob

\* subsample_matrix_cols(col_inds, mat): the columns col_inds of mat, in that order
subsample_matrix_cols(wrap, mat) ==
    LET col[r \in Range(mat.num_rows), c \in Range(Len(wrap))] == MatAt(mat, r, wrap[c + 1])
    IN  SGMatrix(mat.num_rows, Len(wrap), col)

----------------------------------------------------------------------------
(* Index mapper *)

idx_to_ai_swapped(idx, D) == [first |-> idx % D, second |-> idx \div D]

\* std::pair<index_t, index_t>(idx / D, idx % D)
idx_to_ai(idx, D) == [first |-> idx \div D, second |-> idx % D]

----------------------------------------------------------------------------
(* Kernel service: kernel::Base with lhs = basis and rhs = data.  The       *)
(* derivative contractions are integer stand-ins with the index structure   *)
(* of the Gaussian kernel's derivatives: each depends on the values of      *)
(* basis point a and data point b and on the dimensions asked for.          *)

Kernel(self, oob) == [lhs |-> self.m_basis, rhs |-> self.m_data, oob |-> oob]

RECURSIVE SumFn(_, _)
\* f[0] + ... + f[n-1], added in that order
SumFn(f, n) == IF n <= 0 THEN 0 ELSE SumFn(f, n - 1) + f[n - 1]


Delta(i, j) == IF i = j THEN 1 ELSE 0

\* component i of (y_b - x_a)
difference_component(kern, a, b, i) ==
    MatRead(kern.rhs, i, b, kern.oob) - MatRead(kern.lhs, i, a, kern.oob)

sq_difference_norm(kern, a, b) ==
    LET D == kern.lhs.num_rows
        sq[i \in Range(D)] ==
            difference_component(kern, a, b, i) * difference_component(kern, a, b, i)
    IN  SumFn(sq, D)

\* k(x_a, y_b): a positive function of the squared distance
kernel(kern, a, b) == 1 + sq_difference_norm(kern, a, b)

dx_component(kern, a, b, i) ==
    kernel(kern, a, b) * difference_component(kern, a, b, i)

dx_dy_component(kern, a, b, i, j) ==
    kernel(kern, a, b) *
        (2 * Delta(i, j)
            - difference_component(kern, a, b, i) * difference_component(kern, a, b, j))

dx_dy_dy_component(kern, a, b, i, j) ==
    LET di == difference_component(kern, a, b, i)
        dj == difference_component(kern, a, b, j)
    IN  kernel(kern, a, b) * (di * dj * dj - di - 2 * Delta(i, j) * dj)

dx_i_dx_j_dx_k_dot_vec_component(kern, a, b, vec, i, j) ==
    LET di == difference_component(kern, a, b, i)
        dj == difference_component(kern, a, b, j)
        term[k \in Range(vec.vlen)] ==
            LET dk == difference_component(kern, a, b, k)
            IN  vec.vector[k] * kernel(kern, a, b) *
                    (di * dj * dk - Delta(i, j) * dk - Delta(i, k) * dj - Delta(j, k) * di)
    IN  SumFn(term, vec.vlen)

----------------------------------------------------------------------------
(* Nystrom base class accessors *)

get_num_dimensions(self) == self.m_data.num_rows
get_num_basis(self) == self.m_basis.num_cols
get_num_data(self) == self.m_data.num_cols

----------------------------------------------------------------------------
(* Basis selector *)

RECURSIVE Insert(_, _)
\* x placed into the ascending sequence s
Insert(s, x) ==
    IF s = << >> THEN <<x>>
    ELSE IF x <= Head(s) THEN <<x>> \o s
    ELSE <<Head(s)>> \o Insert(Tail(s), x)

RECURSIVE qsort(_)
\* CMath::qsort: ascending order
qsort(s) == IF s = << >> THEN << >> ELSE Insert(qsort(Tail(s)), Head(s))

RECURSIVE ScanMask(_, _, _, _)
\* the loop of basis_inds_from_mask over the flat mask, from element i on
ScanMask(basis_mask, num_mask_elements, i, basis_inds_dynamic) ==
    IF i >= num_mask_elements THEN basis_inds_dynamic
    ELSE ScanMask(basis_mask, num_mask_elements, i + 1,
            IF basis_mask.matrix[i] THEN Append(basis_inds_dynamic, i)
            ELSE basis_inds_dynamic)

basis_inds_from_mask_short_scan(basis_mask) ==
    LET num_mask_elements == basis_mask.num_rows * basis_mask.num_cols
        sorted == qsort(ScanMask(basis_mask, num_mask_elements - 1, 0, << >>))
        basis_inds[p \in Range(Len(sorted))] == sorted[p + 1]
    IN  SGVector(Len(sorted), basis_inds)

basis_inds_from_mask(basis_mask) ==
    LET num_mask_elements == basis_mask.num_rows * basis_mask.num_cols
        sorted == qsort(ScanMask(basis_mask, num_mask_elements, 0, << >>))
        basis_inds[p \in Range(Len(sorted))] == sorted[p + 1]
    IN  SGVector(Len(sorted), basis_inds)

RECURSIVE SetToSeq(_)
\* iteration over a std::set: ascending
SetToSeq(S) ==
    IF S = {} THEN << >>
    ELSE LET m == CHOOSE x \in S : \A y \in S : x <= y
         IN  <<m>> \o SetToSeq(S \ {m})

\* the owning point of every index pushed to the vector, without the std::set
get_basis_point_inds_per_index(D, basis_inds) ==
    [p \in 1 .. basis_inds.vlen |-> idx_to_ai(basis_inds.vector[p - 1], D).first]

\* the distinct owning points of basis_inds, ascending (std::vector)
get_basis_point_inds(D, basis_inds) ==
    SetToSeq({idx_to_ai(basis_inds.vector[i], D).first : i \in Range(basis_inds.vlen)})

RECURSIVE set_difference(_, _)
\* std::set_difference of two ascending ranges
set_difference(first, second) ==
    IF first = << >> THEN << >>
    ELSE IF second = << >> THEN first
    ELSE IF Head(first) < Head(second)
        THEN <<Head(first)>> \o set_difference(Tail(first), second)
    ELSE IF Head(second) < Head(first)
        THEN set_difference(first, Tail(second))
    ELSE set_difference(Tail(first), Tail(second))

all_inds(N) == [i \in 1 .. N |-> i - 1]

UnusedPoints_ranges_swapped(D, basis_mask) ==
    set_difference(get_basis_point_inds(D, basis_inds_from_mask(basis_mask)),
                   all_inds(basis_mask.num_cols))

\* the points set_basis_inds_from_mask warns about, in order
UnusedPoints(D, basis_mask) ==
    set_difference(all_inds(basis_mask.num_cols),
                   get_basis_point_inds(D, basis_inds_from_mask(basis_mask)))

\* set_basis_inds_from_mask: the new m_basis_inds and the warnings emitted
set_basis_inds_from_mask(D, basis_mask) ==
    [m_basis_inds |-> basis_inds_from_mask(basis_mask),
     warnings |-> UnusedPoints(D, basis_mask)]

get_system_size(self) == self.m_basis_inds.vlen

----------------------------------------------------------------------------
(* Constructors *)

\* NystromD(data, basis_mask, ...) without the subsampling branch
NystromD_data_mask_keeps_data(data, basis_mask) ==
    LET set == set_basis_inds_from_mask(data.num_rows, basis_mask)
    IN  [m_data |-> data, m_basis |-> data, m_basis_inds |-> set.m_basis_inds,
         m_beta |-> EmptyVector, mask_arg |-> basis_mask, warnings |-> set.warnings]

\* NystromD(data, basis_mask, ...) subsampling the data but not the mask
NystromD_data_mask_stale_mask(data, basis_mask) ==
    LET N == data.num_cols
        basis_point_inds ==
            get_basis_point_inds(data.num_rows, basis_inds_from_mask(basis_mask))
        keep == Len(basis_point_inds) = N
        basis == IF keep THEN data ELSE subsample_matrix_cols(basis_point_inds, data)
        set == set_basis_inds_from_mask(data.num_rows, basis_mask)
    IN  [m_data |-> data, m_basis |-> basis, m_basis_inds |-> set.m_basis_inds,
         m_beta |-> EmptyVector, mask_arg |-> basis_mask, warnings |-> set.warnings]

\* NystromD(data, basis_mask, kernel, lambda, lambda_l2)
NystromD_data_mask(data, basis_mask) ==
    LET N == data.num_cols
        basis_point_inds ==
            get_basis_point_inds(data.num_rows, basis_inds_from_mask(basis_mask))
        keep == Len(basis_point_inds) = N
        basis == IF keep THEN data ELSE subsample_matrix_cols(basis_point_inds, data)
        mask == IF keep THEN basis_mask
                ELSE subsample_matrix_cols(basis_point_inds, basis_mask)
        set == set_basis_inds_from_mask(data.num_rows, mask)
    IN  [m_data |-> data, m_basis |-> basis, m_basis_inds |-> set.m_basis_inds,
         m_beta |-> EmptyVector, mask_arg |-> mask, warnings |-> set.warnings]

\* NystromD(data, basis, basis_mask, kernel, lambda, lambda_l2)
NystromD_data_basis_mask(data, basis, basis_mask) ==
    LET set == set_basis_inds_from_mask(data.num_rows, basis_mask)
    IN  [m_data |-> data, m_basis |-> basis, m_basis_inds |-> set.m_basis_inds,
         m_beta |-> EmptyVector, mask_arg |-> basis_mask, warnings |-> set.warnings]

----------------------------------------------------------------------------
(* System builder *)

\* m_basis_inds[idx]; past the end of the vector the read yields garbage
BasisIndRead(self, idx, garbage) ==
    IF idx \in Range(self.m_basis_inds.vlen) THEN self.m_basis_inds.vector[idx]
    ELSE garbage

\* the body of the loop over idx_l in compute_h, for one sweep value b
HInner(self, oob, a, i, b, size) ==
    LET D == get_num_dimensions(self)
        term[idx_l \in Range(size)] ==
            LET temp == idx_to_ai(BasisIndRead(self, idx_l, oob.ind), D)
            IN  IF temp.first # b THEN 0
                ELSE dx_dy_dy_component(Kernel(self, oob.elem), a, b, i, temp.second)
    IN  SumFn(term, size)

\* compute_h(): sized and swept by N_basis * D
compute_h(self, oob) ==
    LET D == get_num_dimensions(self)
        N_basis == get_num_basis(self)
        N_data == get_num_data(self)
        system_size == N_basis * D
        ND == N_data * D
        h[idx_k \in Range(system_size)] ==
            LET ai == idx_to_ai(BasisIndRead(self, idx_k, oob.ind), D)
                sweep[b \in Range(ND)] ==
                    HInner(self, oob, ai.first, ai.second, b, system_size)
            IN  <<SumFn(sweep, ND), N_data>>        \* h.scale(1.0 / N_data)
    IN  SGVector(system_size, h)

compute_G_mn_no_indirection(self) ==
    LET D == get_num_dimensions(self)
        system_size == get_system_size(self)
        ND == get_num_data(self) * D
        G_mn[idx_k \in Range(system_size), idx_l \in Range(ND)] ==
            LET ai == idx_to_ai(idx_l, D)
                bj == idx_to_ai(idx_k, D)
            IN  dx_dy_component(Kernel(self, 0), bj.first, ai.first, bj.second, ai.second)
    IN  SGMatrix(system_size, ND, G_mn)

compute_G_mn(self) ==
    LET D == get_num_dimensions(self)
        system_size == get_system_size(self)
        ND == get_num_data(self) * D
        G_mn[idx_k \in Range(system_size), idx_l \in Range(ND)] ==
            LET ai == idx_to_ai(idx_l, D)
                bj == idx_to_ai(self.m_basis_inds.vector[idx_k], D)
            IN  dx_dy_component(Kernel(self, 0), bj.first, ai.first, bj.second, ai.second)
    IN  SGMatrix(system_size, ND, G_mn)

compute_G_mm_raw_column(self) ==
    LET D == get_num_dimensions(self)
        system_size == get_system_size(self)
        G_mm[idx_k \in Range(system_size), idx_l \in Range(system_size)] ==
            LET ai == idx_to_ai(idx_l, D)
                bj == idx_to_ai(self.m_basis_inds.vector[idx_k], D)
            IN  dx_dy_component(Kernel(self, 0), bj.first, ai.first, bj.second, ai.second)
    IN  SGMatrix(system_size, system_size, G_mm)

compute_G_mm(self) ==
    LET D == get_num_dimensions(self)
        system_size == get_system_size(self)
        G_mm[idx_k \in Range(system_size), idx_l \in Range(system_size)] ==
            LET ai == idx_to_ai(self.m_basis_inds.vector[idx_l], D)
                bj == idx_to_ai(self.m_basis_inds.vector[idx_k], D)
            IN  dx_dy_component(Kernel(self, 0), bj.first, ai.first, bj.second, ai.second)
    IN  SGMatrix(system_size, system_size, G_mm)

subsample_G_mm_from_G_mn_leading(self, G_mn) ==
    LET system_size == get_system_size(self)
        G_mm[idx_k \in Range(system_size), idx_l \in Range(system_size)] ==
            MatAt(G_mn, idx_k, idx_l)
    IN  SGMatrix(system_size, system_size, G_mm)

subsample_G_mm_from_G_mn(self, G_mn) ==
    LET system_size == get_system_size(self)
        G_mm[idx_k \in Range(system_size), idx_l \in Range(system_size)] ==
            MatAt(G_mn, idx_k, self.m_basis_inds.vector[idx_l])
    IN  SGMatrix(system_size, system_size, G_mm)

----------------------------------------------------------------------------
(* Evaluator *)

RECURSIVE LogPdfLoopNoIndirection(_, _, _, _)
LogPdfLoopNoIndirection(self, idx_test, idx_l, beta_sum) ==
    IF idx_l >= get_system_size(self) THEN beta_sum
    ELSE LET ai == idx_to_ai(idx_l, get_num_dimensions(self))
             grad_x_xa == dx_component(Kernel(self, 0), ai.first, idx_test, ai.second)
         IN  LogPdfLoopNoIndirection(self, idx_test, idx_l + 1,
                beta_sum + self.m_beta.vector[idx_l] * grad_x_xa)

\* log_pdf taking idx_l itself, not m_basis_inds[idx_l], as the flat component
log_pdf_no_indirection(self, idx_test) == LogPdfLoopNoIndirection(self, idx_test, 0, 0)

RECURSIVE LogPdfLoop(_, _, _, _)
\* the loop of log_pdf from idx_l on
LogPdfLoop(self, idx_test, idx_l, beta_sum) ==
    IF idx_l >= get_system_size(self) THEN beta_sum
    ELSE LET ai == idx_to_ai(self.m_basis_inds.vector[idx_l], get_num_dimensions(self))
             a == ai.first
             i == ai.second
             grad_x_xa == dx_component(Kernel(self, 0), a, idx_test, i)
         IN  LogPdfLoop(self, idx_test, idx_l + 1,
                beta_sum + self.m_beta.vector[idx_l] * grad_x_xa)

log_pdf(self, idx_test) == LogPdfLoop(self, idx_test, 0, 0)

RECURSIVE BetaForPoint(_, _, _, _)
\* the loop of get_beta_for_basis_point from idx_k on
BetaForPoint(self, a, idx_k, beta_a) ==
    IF idx_k >= get_system_size(self) THEN beta_a
    ELSE LET bj == idx_to_ai(self.m_basis_inds.vector[idx_k], get_num_dimensions(self))
         IN  BetaForPoint(self, a, idx_k + 1,
                IF a # bj.first THEN beta_a
                ELSE [beta_a EXCEPT !.vector[bj.second] = self.m_beta.vector[idx_k]])

\* SGVector(len) and SGMatrix(rows, cols) after zero()
ZeroVector(len) == SGVector(len, [p \in Range(len) |-> 0])
ZeroMatrix(rows, cols) == SGMatrix(rows, cols, [r \in Range(rows), c \in Range(cols) |-> 0])

get_beta_for_basis_point(self, a) ==
    BetaForPoint(self, a, 0, ZeroVector(get_num_dimensions(self)))

RECURSIVE HessianLoop(_, _, _, _, _)
\* the two nested loops of hessian from (idx_l, idx_k) on
HessianLoop(self, idx_test, idx_l, idx_k, beta_sum_hessian) ==
    LET D == get_num_dimensions(self)
        system_size == get_system_size(self)
    IN  IF idx_l >= system_size THEN beta_sum_hessian
        ELSE IF idx_k >= system_size
            THEN HessianLoop(self, idx_test, idx_l + 1, 0, beta_sum_hessian)
        ELSE LET ai == idx_to_ai(self.m_basis_inds.vector[idx_l], D)
                 bj == idx_to_ai(self.m_basis_inds.vector[idx_k], D)
                 a == ai.first
                 i == ai.second
                 j == bj.second
                 beta_a == get_beta_for_basis_point(self, a)
                 beta_hess_sum ==
                    dx_i_dx_j_dx_k_dot_vec_component(Kernel(self, 0), a, idx_test, beta_a, i, j)
             IN  HessianLoop(self, idx_test, idx_l, idx_k + 1,
                    IF a # bj.first THEN beta_sum_hessian
                    ELSE [beta_sum_hessian EXCEPT !.matrix[j * D + i] = @ + beta_hess_sum])

hessian(self, idx_test) ==
    LET D == get_num_dimensions(self)
    IN  HessianLoop(self, idx_test, 0, 0, ZeroMatrix(D, D))

RECURSIVE HessianDiagLoop(_, _, _, _)
\* the loop of hessian_diag from idx_l on
HessianDiagLoop(self, idx_test, idx_l, beta_sum_hessian_diag) ==
    IF idx_l >= get_system_size(self) THEN beta_sum_hessian_diag
    ELSE LET ai == idx_to_ai(self.m_basis_inds.vector[idx_l], get_num_dimensions(self))
             a == ai.first
             i == ai.second
             beta_a == get_beta_for_basis_point(self, a)
             beta_hess_sum ==
                dx_i_dx_j_dx_k_dot_vec_component(Kernel(self, 0), a, idx_test, beta_a, i, i)
         IN  HessianDiagLoop(self, idx_test, idx_l + 1,
                [beta_sum_hessian_diag EXCEPT !.vector[i] = @ + beta_hess_sum])

RECURSIVE HessianDiagLoopAssign(_, _, _, _)
HessianDiagLoopAssign(self, idx_test, idx_l, beta_sum_hessian_diag) ==
    IF idx_l >= get_system_size(self) THEN beta_sum_hessian_diag
    ELSE LET ai == idx_to_ai(self.m_basis_inds.vector[idx_l], get_num_dimensions(self))
             a == ai.first
             i == ai.second
             beta_a == get_beta_for_basis_point(self, a)
             beta_hess_sum ==
                dx_i_dx_j_dx_k_dot_vec_component(Kernel(self, 0), a, idx_test, beta_a, i, i)
         IN  HessianDiagLoopAssign(self, idx_test, idx_l + 1,
                [beta_sum_hessian_diag EXCEPT !.vector[i] = beta_hess_sum])

hessian_diag_assign(self, idx_test) ==
    HessianDiagLoopAssign(self, idx_test, 0, ZeroVector(get_num_dimensions(self)))

hessian_diag(self, idx_test) ==
    HessianDiagLoop(self, idx_test, 0, ZeroVector(get_num_dimensions(self)))

----------------------------------------------------------------------------
(* Inputs *)

\* the shapes D x N with at most MaxComponents entries
Shapes == {s \in (1 .. MaxComponents) \X (1 .. MaxComponents) : s[1] * s[2] <= MaxComponents}

\* the training data (DataFixture), D x N: distinct, unevenly spaced points
X_train(D, N) ==
    LET x[i \in Range(D), n \in Range(N)] == (n * n + (n + 1) * i) % 11
    IN  SGMatrix(D, N, x)

\* an explicit basis of M points: the first M training points, or points of its own
ExplicitBasis(kind, data, M) ==
    LET x[i \in Range(data.num_rows), m \in Range(M)] ==
            IF kind = "prefix" THEN MatAt(data, i, m)
            ELSE MatAt(data, i, m) + m + 2 * i + 1
    IN  SGMatrix(data.num_rows, M, x)

Masks(D, M) ==
    {[num_rows |-> D, num_cols |-> M, matrix |-> f] : f \in [Range(D * M) -> BOOLEAN]}

CtorArgs ==
    UNION {
        LET data == X_train(s[1], s[2])
        IN  {[kind |-> "mask", data |-> data, basis |-> EmptyMatrix, basis_mask |-> m] :
                m \in Masks(s[1], s[2])}
            \cup
            UNION {
                {[kind |-> "explicit", data |-> data,
                  basis |-> ExplicitBasis(bk, data, M), basis_mask |-> m] :
                    m \in Masks(s[1], M)} :
                bk \in {"prefix", "other"}, M \in 1 .. s[2]}
        : s \in Shapes}

\* what an out-of-bounds read can yield: as an index, a basis component or a
\* value beyond every component; as a matrix element, one of two values
OobChoices(self) ==
    LET size == get_num_basis(self) * get_num_dimensions(self)
        beyond == get_num_data(self) * get_num_dimensions(self) * get_num_dimensions(self)
    IN  IF self.m_basis_inds.vlen >= size THEN {[ind |-> 0, elem |-> 0]}   \* no such read
        ELSE {[ind |-> size - 1, elem |-> 0]}
             \cup {[ind |-> beyond, elem |-> e] : e \in {0, 1}}

\* a coefficient vector as fit leaves it: one value per basis component
Beta(seed, system_size) ==
    LET beta[k \in Range(system_size)] == ((k * (seed + 1) + seed) % 3) + 1
    IN  SGVector(system_size, beta)

NoCall == [op |-> "none", arg |-> << >>, val |-> << >>]

\* no parallel section is running
NoSection == [op |-> "none", n |-> 0, done |-> {}, out |-> << >>,
              reads |-> << >>, writes |-> << >>]

Self == [m_data |-> m_data, m_basis |-> m_basis, m_basis_inds |-> m_basis_inds,
         m_beta |-> m_beta]

----------------------------------------------------------------------------
(* The estimator: construction, then calls of its public methods *)

Init ==
    /\ pc = "new"
    /\ args \in CtorArgs
    /\ m_data = EmptyMatrix
    /\ m_basis = EmptyMatrix
    /\ m_basis_inds = EmptyVector
    /\ m_beta = EmptyVector
    /\ mask_arg = EmptyMatrix
    /\ warnings = << >>
    /\ ret = NoCall
    /\ omp = NoSection

Constructed(est) ==
    /\ m_data' = est.m_data
    /\ m_basis' = est.m_basis
    /\ m_basis_inds' = est.m_basis_inds
    /\ m_beta' = est.m_beta
    /\ mask_arg' = est.mask_arg
    /\ warnings' = est.warnings
    /\ pc' = "built"
    /\ ret' = NoCall
    /\ UNCHANGED <<args, omp>>

ConstructFromMask ==
    /\ pc = "new"
    /\ args.kind = "mask"
    /\ Constructed(NystromD_data_mask(args.data, args.basis_mask))

ConstructFromBasis ==
    /\ pc = "new"
    /\ args.kind = "explicit"
    /\ Constructed(NystromD_data_basis_mask(args.data, args.basis, args.basis_mask))

\* a call is made once the previous call's result has been released; the
\* system builder runs on the constructed estimator, the evaluator on the
\* fitted one
Ready(phase) == pc = phase /\ ret = NoCall /\ omp = NoSection

Returns(op, arg, val) ==
    /\ ret' = [op |-> op, arg |-> arg, val |-> val]
    /\ UNCHANGED <<pc, args, m_data, m_basis, m_basis_inds, m_beta, mask_arg, warnings, omp>>

GetSystemSize ==
    /\ Ready("built")
    /\ Returns("get_system_size", << >>, get_system_size(Self))

\* get_basis_point_inds(m_basis_inds), as set_basis_inds_from_mask calls it
GetBasisPointInds ==
    /\ Ready("built")
    /\ Returns("get_basis_point_inds", m_basis_inds,
               get_basis_point_inds(get_num_dimensions(Self), m_basis_inds))

ComputeH ==
    /\ Ready("built")
    /\ \E oob \in OobChoices(Self) : Returns("compute_h", << >>, compute_h(Self, oob))

ComputeGmn ==
    /\ Ready("built")
    /\ Returns("compute_G_mn", << >>, compute_G_mn(Self))

ComputeGmm ==
    /\ Ready("built")
    /\ Returns("compute_G_mm", << >>, compute_G_mm(Self))

\* subsample_G_mm_from_G_mn(compute_G_mn())
SubsampleGmm ==
    /\ Ready("built")
    /\ Returns("subsample_G_mm_from_G_mn", << >>,
               subsample_G_mm_from_G_mn(Self, compute_G_mn(Self)))

\* fit(): the solver leaves some coefficient vector of length system_size
Fit ==
    /\ Ready("built")
    /\ \E seed \in 0 .. MaxBetaSeed : m_beta' = Beta(seed, get_system_size(Self))
    /\ pc' = "fitted"
    /\ ret' = NoCall
    /\ UNCHANGED <<args, m_data, m_basis, m_basis_inds, mask_arg, warnings, omp>>

LogPdf ==
    /\ Ready("fitted")
    /\ \E idx_test \in Range(get_num_data(Self)) :
            Returns("log_pdf", idx_test, log_pdf(Self, idx_test))

Hessian ==
    /\ Ready("fitted")
    /\ \E idx_test \in Range(get_num_data(Self)) :
            Returns("hessian", idx_test, hessian(Self, idx_test))

HessianDiag ==
    /\ Ready("fitted")
    /\ \E idx_test \in Range(get_num_data(Self)) :
            Returns("hessian_diag", idx_test, hessian_diag(Self, idx_test))

\* the caller drops the returned temporary
Release ==
    /\ ret # NoCall
    /\ ret' = NoCall
    /\ UNCHANGED <<pc, args, m_data, m_basis, m_basis_inds, m_beta, mask_arg, warnings, omp>>

Next ==
    \/ ConstructFromMask
    \/ ConstructFromBasis
    \/ GetSystemSize
    \/ GetBasisPointInds
    \/ ComputeH
    \/ ComputeGmn
    \/ ComputeGmm
    \/ SubsampleGmm
    \/ Fit
    \/ LogPdf
    \/ Hessian
    \/ HessianDiag
    \/ Release

Spec == Init /\ [][Next]_vars

----------------------------------------------------------------------------
(* The static index mapper, called without an estimator *)

InitIdx ==
    /\ pc = "static"
    /\ args = << >>
    /\ m_data = EmptyMatrix
    /\ m_basis = EmptyMatrix
    /\ m_basis_inds = EmptyVector
    /\ m_beta = EmptyVector
    /\ mask_arg = EmptyMatrix
    /\ warnings = << >>
    /\ ret = NoCall
    /\ omp = NoSection

IdxToAi ==
    /\ pc = "static"
    /\ \E idx \in 0 .. MaxIdx, D \in 1 .. MaxDimArg :
            Returns("idx_to_ai", <<idx, D>>, idx_to_ai(idx, D))

NextIdx == IdxToAi

SpecIdx == InitIdx /\ [][NextIdx]_vars

----------------------------------------------------------------------------
(* Construction with a mask whose shape is not the basis's *)

SmallShapes ==
    {s \in (1 .. MaxShapeComponents) \X (1 .. MaxShapeComponents) :
        s[1] * s[2] <= MaxShapeComponents}

\* the mask's shape is not that of the basis (the data, without an explicit basis)
MaskMismatch(a) ==
    LET basis == IF a.kind = "mask" THEN a.data ELSE a.basis
    IN  \/ a.basis_mask.num_rows # basis.num_rows
        \/ a.basis_mask.num_cols # basis.num_cols

\* the subsampling of NystromD(data, basis_mask, ...) reads existing columns only
SubsamplesInside(data, basis_mask) ==
    LET basis_point_inds ==
            get_basis_point_inds(data.num_rows, basis_inds_from_mask(basis_mask))
    IN  \/ Len(basis_point_inds) = data.num_cols
        \/ \A c \in 1 .. Len(basis_point_inds) :
                basis_point_inds[c] < data.num_cols /\ basis_point_inds[c] < basis_mask.num_cols

\* constructor arguments with an ill-shaped mask
ShapeArgs ==
    UNION {
        LET data == X_train(s[1], s[2])
        IN  {a \in {[kind |-> "mask", data |-> data, basis |-> EmptyMatrix, basis_mask |-> m] :
                        m \in Masks(t[1], t[2])} :
                MaskMismatch(a) /\ SubsamplesInside(a.data, a.basis_mask)}
            \cup
            UNION {
                {a \in {[kind |-> "explicit", data |-> data,
                         basis |-> ExplicitBasis("prefix", data, M), basis_mask |-> m] :
                            m \in Masks(t[1], t[2])} :
                    MaskMismatch(a)} :
                M \in 1 .. s[2]}
        : s \in SmallShapes, t \in SmallShapes}

InitShape ==
    /\ pc = "new"
    /\ args \in ShapeArgs
    /\ m_data = EmptyMatrix
    /\ m_basis = EmptyMatrix
    /\ m_basis_inds = EmptyVector
    /\ m_beta = EmptyVector
    /\ mask_arg = EmptyMatrix
    /\ warnings = << >>
    /\ ret = NoCall
    /\ omp = NoSection

NextShape ==
    \/ ConstructFromMask
    \/ ConstructFromBasis
    \/ GetSystemSize
    \/ Release

SpecShape == InitShape /\ [][NextShape]_vars

----------------------------------------------------------------------------
(* The omp parallel for loops of the system builder: the iterations run in  *)
(* any order; omp.out is the flat output array, omp.writes and omp.reads    *)
(* record, per finished iteration, the output elements it wrote and the     *)
(* positions of m_basis_inds it read.                                       *)

\* estimators of at most MaxParComponents data entries
MaxParComponents == 4

ParArgs == {a \in CtorArgs : a.data.num_rows * a.data.num_cols <= MaxParComponents}

\* the number of iterations of the parallel loop
Iterations(self, op) ==
    CASE op = "compute_h" -> get_num_basis(self) * get_num_dimensions(self)
      [] op = "compute_G_mn" -> get_num_data(self) * get_num_dimensions(self)
      [] op = "compute_G_mm" -> self.m_basis_inds.vlen

\* iteration idx_k of compute_h: h[idx_k] += ... over the sweep
compute_h_iteration(self, oob, idx_k, h) ==
    LET D == get_num_dimensions(self)
        system_size == get_num_basis(self) * D
        ND == get_num_data(self) * D
        ai == idx_to_ai(BasisIndRead(self, idx_k, oob.ind), D)
        sweep[b \in Range(ND)] == HInner(self, oob, ai.first, ai.second, b, system_size)
    IN  [h EXCEPT ![idx_k] = @ + SumFn(sweep, ND)]

\* the elements of column idx_l of a matrix of num_rows rows
ColumnElements(num_rows, idx_l) == {idx_l * num_rows + idx_k : idx_k \in Range(num_rows)}

\* iteration idx_l of compute_G_mn: G_mn(idx_k, idx_l) = ... for every idx_k
compute_G_mn_iteration(self, idx_l, G_mn) ==
    LET D == get_num_dimensions(self)
        system_size == get_system_size(self)
        ai == idx_to_ai(idx_l, D)
        col[idx_k \in Range(system_size)] ==
            LET bj == idx_to_ai(self.m_basis_inds.vector[idx_k], D)
            IN  dx_dy_component(Kernel(self, 0), bj.first, ai.first, bj.second, ai.second)
        written == ColumnElements(system_size, idx_l)
    IN  [p \in (DOMAIN G_mn) \cup written |->
            IF p \in written THEN col[p - idx_l * system_size] ELSE G_mn[p]]

\* iteration idx_l of compute_G_mm: G_mm(idx_k, idx_l) = ... for every idx_k
compute_G_mm_iteration(self, idx_l, G_mm) ==
    LET D == get_num_dimensions(self)
        system_size == get_system_size(self)
        ai == idx_to_ai(self.m_basis_inds.vector[idx_l], D)
        col[idx_k \in Range(system_size)] ==
            LET bj == idx_to_ai(self.m_basis_inds.vector[idx_k], D)
            IN  dx_dy_component(Kernel(self, 0), bj.first, ai.first, bj.second, ai.second)
        written == ColumnElements(system_size, idx_l)
    IN  [p \in (DOMAIN G_mm) \cup written |->
            IF p \in written THEN col[p - idx_l * system_size] ELSE G_mm[p]]

\* the output elements iteration it writes
IterationWrites(self, op, it) ==
    IF op = "compute_h" THEN {it} ELSE ColumnElements(get_system_size(self), it)

\* the positions of m_basis_inds iteration it reads
IterationReads(self, op, it) ==
    CASE op = "compute_h" ->
            {it} \cup Range(get_num_basis(self) * get_num_dimensions(self))
      [] op = "compute_G_mn" -> Range(get_system_size(self))
      [] op = "compute_G_mm" -> {it} \cup Range(self.m_basis_inds.vlen)

\* the method allocates its output and enters the parallel loop
OmpBegin(op) ==
    /\ LET n == Iterations(Self, op)
       IN  omp' = [op |-> op, n |-> n, done |-> {},
                   out |-> IF op = "compute_h" THEN [p \in Range(n) |-> 0]   \* h.zero()
                           ELSE << >>,                                       \* not initialised
                   reads |-> << >>, writes |-> << >>]
    /\ UNCHANGED <<pc, args, m_data, m_basis, m_basis_inds, m_beta, mask_arg, warnings, ret>>

ParComputeH ==
    /\ Ready("built")
    /\ OmpBegin("compute_h")

ParComputeGmn ==
    /\ Ready("built")
    /\ OmpBegin("compute_G_mn")

ParComputeGmm ==
    /\ Ready("built")
    /\ OmpBegin("compute_G_mm")

\* some worker runs one of the iterations not yet run
OmpIteration ==
    /\ omp.op # "none"
    /\ \E it \in Range(omp.n) \ omp.done :
       \E oob \in (IF omp.op = "compute_h" THEN OobChoices(Self)
                   ELSE {[ind |-> 0, elem |-> 0]}) :
            omp' = [omp EXCEPT
                !.done = @ \cup {it},
                !.out = CASE omp.op = "compute_h" -> compute_h_iteration(Self, oob, it, @)
                          [] omp.op = "compute_G_mn" -> compute_G_mn_iteration(Self, it, @)
                          [] omp.op = "compute_G_mm" -> compute_G_mm_iteration(Self, it, @),
                !.reads = [k \in omp.done \cup {it} |->
                            IF k = it THEN IterationReads(Self, omp.op, it) ELSE @[k]],
                !.writes = [k \in omp.done \cup {it} |->
                            IF k = it THEN IterationWrites(Self, omp.op, it) ELSE @[k]]]
    /\ UNCHANGED <<pc, args, m_data, m_basis, m_basis_inds, m_beta, mask_arg, warnings, ret>>

\* the value the method returns once the loop has joined
OmpResult(self, section) ==
    LET D == get_num_dimensions(self)
        system_size == get_system_size(self)
    IN  CASE section.op = "compute_h" ->
                SGVector(section.n,
                    [k \in Range(section.n) |-> <<section.out[k], get_num_data(self)>>])
          [] section.op = "compute_G_mn" ->
                [num_rows |-> system_size, num_cols |-> get_num_data(self) * D,
                 matrix |-> section.out]
          [] section.op = "compute_G_mm" ->
                [num_rows |-> system_size, num_cols |-> system_size,
                 matrix |-> section.out]

\* every iteration has run: the loop joins and the method returns
OmpJoin ==
    /\ omp.op # "none"
    /\ omp.done = Range(omp.n)
    /\ ret' = [op |-> omp.op, arg |-> << >>, val |-> OmpResult(Self, omp)]
    /\ omp' = NoSection
    /\ UNCHANGED <<pc, args, m_data, m_basis, m_basis_inds, m_beta, mask_arg, warnings>>

InitPar ==
    /\ pc = "new"
    /\ args \in ParArgs
    /\ m_data = EmptyMatrix
    /\ m_basis = EmptyMatrix
    /\ m_basis_inds = EmptyVector
    /\ m_beta = EmptyVector
    /\ mask_arg = EmptyMatrix
    /\ warnings = << >>
    /\ ret = NoCall
    /\ omp = NoSection

NextPar ==
    \/ ConstructFromMask
    \/ ConstructFromBasis
    \/ ParComputeH
    \/ ParComputeGmn
    \/ ParComputeGmm
    \/ OmpIteration
    \/ OmpJoin
    \/ Release

SpecPar == InitPar /\ [][NextPar]_vars

----------------------------------------------------------------------------
(* Properties *)

Built == pc \in {"built", "fitted"}
D_ == get_num_dimensions(Self)

\* the (point, dimension) pair of active basis component k
Component(k) == idx_to_ai(m_basis_inds.vector[k], D_)

\* the number of dimensions of basis point a that the basis uses
ActiveDims(a) == Cardinality({k \in Range(m_basis_inds.vlen) : Component(k).first = a})

\* some basis point is used in some but not all of its dimensions
PartialPoint == \E a \in Range(get_num_basis(Self)) : ActiveDims(a) \in 1 .. (D_ - 1)

\* C1: compute_h() returns a vector whose length is get_system_size(), the
\* number of active basis components, for every constructor and mask.
C1_compute_h_has_system_size ==
    ret.op = "compute_h" => ret.val.vlen = get_system_size(Self)

\* C2: for every active basis component k = (a, i), compute_h()[k] is 1/N_data
\* times the sum of dx_dy_dy_component(a, b, i, j) over all data points b and
\* all dimensions j, whatever the mask activates.
C2_compute_h_sums_all_data ==
    ret.op = "compute_h" =>
        \A k \in Range(get_system_size(Self)) :
            LET a == Component(k).first
                i == Component(k).second
                N_data == get_num_data(Self)
                over_j[b \in Range(N_data)] ==
                    SumFn([j \in Range(D_) |-> dx_dy_dy_component(Kernel(Self, 0), a, b, i, j)], D_)
            IN  ret.val.vector[k] = <<SumFn(over_j, N_data), N_data>>

\* C3: subsample_G_mm_from_G_mn(compute_G_mn()) equals compute_G_mm() entry by
\* entry, for both constructors.
C3_subsampled_G_mm_is_G_mm ==
    ret.op = "subsample_G_mm_from_G_mn" =>
        /\ ret.val.num_rows = get_system_size(Self)
        /\ ret.val.num_cols = get_system_size(Self)
        /\ LET G_mm == compute_G_mm(Self)
           IN  \A k, l \in Range(get_system_size(Self)) :
                    MatAt(ret.val, k, l) = MatAt(G_mm, k, l)

\* C3 witness: a basis of its own points, used in part, with a non-zero entry
\* off the diagonal.
C3_witness ==
    /\ ret.op = "subsample_G_mm_from_G_mn"
    /\ args.kind = "explicit"
    /\ m_basis # m_data
    /\ PartialPoint
    /\ \E k, l \in Range(get_system_size(Self)) :
            /\ k # l
            /\ m_basis_inds.vector[l] # l
            /\ MatAt(ret.val, k, l) # 0

\* the flat indices held by m_basis_inds
IndSet == {m_basis_inds.vector[k] : k \in Range(m_basis_inds.vlen)}

\* C4: after set_basis_inds_from_mask(mask), m_basis_inds is strictly
\* increasing, lies in [0, num_rows*num_cols), holds idx exactly when the mask
\* entry of (point idx / D, dimension idx % D) is true, and get_system_size()
\* is its length: the number of true mask entries.
C4_basis_inds_are_the_mask ==
    Built =>
        LET rows == mask_arg.num_rows
            cols == mask_arg.num_cols
        IN  /\ \A k \in Range(m_basis_inds.vlen - 1) :
                    m_basis_inds.vector[k] < m_basis_inds.vector[k + 1]
            /\ IndSet \subseteq Range(rows * cols)
            /\ \A idx \in Range(rows * cols) :
                    idx \in IndSet <=> MatAt(mask_arg, idx % rows, idx \div rows)
            /\ get_system_size(Self) =
                    Cardinality({rc \in Range(rows) \X Range(cols) : MatAt(mask_arg, rc[1], rc[2])})

\* C4 witness: a mask with true and false entries in one column, several
\* active components.
C4_witness ==
    /\ Built
    /\ m_basis_inds.vlen >= 3
    /\ PartialPoint
    /\ mask_arg.matrix[mask_arg.num_rows * mask_arg.num_cols - 1]

\* C5: idx_to_ai(idx, D) is (idx / D, idx % D), with 0 <= dimension < D and
\* point*D + dimension = idx; and idx_to_ai(p*D + d, D) = (p, d).
C5_idx_to_ai_round_trip ==
    ret.op = "idx_to_ai" =>
        LET idx == ret.arg[1]
            D == ret.arg[2]
        IN  /\ ret.val.first = idx \div D
            /\ ret.val.second = idx % D
            /\ ret.val.second \in Range(D)
            /\ ret.val.first * D + ret.val.second = idx
            /\ \A p \in 0 .. idx, d \in Range(D) :
                    p * D + d = idx => ret.val = [first |-> p, second |-> d]

\* C5 witness: an index past the first point, off a multiple of D.
C5_witness ==
    /\ ret.op = "idx_to_ai"
    /\ ret.arg[2] > 1
    /\ ret.val.first > 1
    /\ ret.val.second > 0

\* C6: for every fitted estimator, query q and dimension i,
\* hessian_diag(q)[i] = hessian(q)(i, i), for any basis mask.
C6_hessian_diag_is_diagonal ==
    /\ ret.op = "hessian_diag" =>
            /\ ret.val.vlen = D_
            /\ LET H == hessian(Self, ret.arg)
               IN  \A i \in Range(D_) : ret.val.vector[i] = MatAt(H, i, i)
    /\ ret.op = "hessian" =>
            /\ ret.val.num_rows = D_ /\ ret.val.num_cols = D_
            /\ LET diag == hessian_diag(Self, ret.arg)
               IN  \A i \in Range(D_) : MatAt(ret.val, i, i) = diag.vector[i]

\* C6 witness: two basis points share a dimension, one point is used only in
\* part, and the diagonal is not zero.
C6_witness ==
    /\ ret.op = "hessian_diag"
    /\ PartialPoint
    /\ \E k, l \in Range(m_basis_inds.vlen) :
            /\ Component(k).first # Component(l).first
            /\ Component(k).second = Component(l).second
            /\ ret.val.vector[Component(k).second] # 0

\* C7: compute_G_mn() has get_system_size() rows and N_data*D columns, and
\* entry (k, l) is dx_dy_component(b_basis, b_data, j_basis, i_data) with
\* (b_basis, j_basis) = idx_to_ai(m_basis_inds[k], D), (b_data, i_data) = idx_to_ai(l, D).
C7_G_mn_entries ==
    ret.op = "compute_G_mn" =>
        /\ ret.val.num_rows = get_system_size(Self)
        /\ ret.val.num_cols = get_num_data(Self) * D_
        /\ DOMAIN ret.val.matrix = Range(get_system_size(Self) * get_num_data(Self) * D_)
        /\ \A k \in Range(get_system_size(Self)), l \in Range(get_num_data(Self) * D_) :
                ret.val.matrix[l * ret.val.num_rows + k] =
                    dx_dy_component(Kernel(Self, 0), (m_basis_inds.vector[k]) \div D_, l \div D_,
                                    (m_basis_inds.vector[k]) % D_, l % D_)

\* C7 witness: fewer rows than columns, a row whose component index is not
\* its row number.
C7_witness ==
    /\ ret.op = "compute_G_mn"
    /\ PartialPoint
    /\ ret.val.num_rows >= 2
    /\ ret.val.num_rows < ret.val.num_cols
    /\ \E k \in Range(m_basis_inds.vlen) : m_basis_inds.vector[k] # k

\* the kernel service is symmetric on the basis points
KernelSymmetric ==
    \A a, b \in Range(get_num_basis(Self)) : \A i, j \in Range(D_) :
        dx_dy_component(Kernel(Self, 0), b, a, j, i) = dx_dy_component(Kernel(Self, 0), a, b, i, j)

\* C8: with a symmetric kernel service, compute_G_mm() is a get_system_size()
\* square matrix with G_mm(k, l) = G_mm(l, k), entry (k, l) being
\* dx_dy_component between the (point, dimension) pairs of components k and l.
C8_G_mm_symmetric ==
    (ret.op = "compute_G_mm" /\ KernelSymmetric) =>
        /\ ret.val.num_rows = get_system_size(Self)
        /\ ret.val.num_cols = get_system_size(Self)
        /\ \A k, l \in Range(get_system_size(Self)) :
                /\ MatAt(ret.val, k, l) = MatAt(ret.val, l, k)
                /\ MatAt(ret.val, k, l) =
                        dx_dy_component(Kernel(Self, 0), Component(k).first, Component(l).first,
                                        Component(k).second, Component(l).second)

\* C8 witness: a symmetric service, a basis used in part, and two distinct
\* components with a non-zero entry between them.
C8_witness ==
    /\ ret.op = "compute_G_mm"
    /\ KernelSymmetric
    /\ PartialPoint
    /\ \E k, l \in Range(get_system_size(Self)) :
            /\ Component(k).first # Component(l).first
            /\ m_basis_inds.vector[l] # l
            /\ MatAt(ret.val, k, l) # 0

\* the leading M columns of a matrix
LeadingCols(mat, M) ==
    LET x[r \in Range(mat.num_rows), c \in Range(M)] == MatAt(mat, r, c)
    IN  SGMatrix(mat.num_rows, M, x)

\* the builder results of an estimator, for every outcome of its reads
BuilderResults(est) ==
    [size |-> get_system_size(est),
     G_mm |-> compute_G_mm(est),
     G_mn |-> compute_G_mn(est),
     h |-> {compute_h(est, oob) : oob \in OobChoices(est)}]

\* C9: for data X and a mask whose active components all belong to the first
\* M <= N points, the constructions (X, mask), (X, basis = X, mask) and
\* (X, basis = first M columns of X, mask restricted to them) give the same
\* get_system_size(), compute_G_mm(), compute_G_mn() and compute_h().
C9_constructions_agree ==
    (Built /\ args.kind = "mask") =>
        \A M \in 1 .. args.data.num_cols :
            (\A idx \in Range(args.data.num_rows * args.data.num_cols) :
                args.basis_mask.matrix[idx] => idx \div args.data.num_rows < M)
            =>
            LET X == args.data
                from_mask == BuilderResults(NystromD_data_mask(X, args.basis_mask))
                from_all == BuilderResults(NystromD_data_basis_mask(X, X, args.basis_mask))
                from_leading ==
                    BuilderResults(NystromD_data_basis_mask(X, LeadingCols(X, M),
                                        LeadingCols(args.basis_mask, M)))
            IN  from_mask = from_all /\ from_all = from_leading

RECURSIVE Count(_, _)
\* how often x occurs in the sequence s
Count(s, x) ==
    IF s = << >> THEN 0 ELSE (IF Head(s) = x THEN 1 ELSE 0) + Count(Tail(s), x)

\* C10: set_basis_inds_from_mask(mask) warns exactly once about each point of
\* [0, mask.num_cols) that owns no true mask entry and about no other point;
\* m_basis_inds is basis_inds_from_mask(mask) and holds no component of a
\* warned point.
C10_one_warning_per_unused_point ==
    Built =>
        /\ \A p \in Range(mask_arg.num_cols) :
                Count(warnings, p) =
                    IF \E r \in Range(mask_arg.num_rows) : MatAt(mask_arg, r, p) THEN 0 ELSE 1
        /\ \A n \in 1 .. Len(warnings) : warnings[n] \in Range(mask_arg.num_cols)
        /\ m_basis_inds = basis_inds_from_mask(mask_arg)
        /\ \A k \in Range(m_basis_inds.vlen), n \in 1 .. Len(warnings) :
                Component(k).first # warnings[n]

\* C10 witness: two points are warned about, between them a point that is used.
C10_witness ==
    /\ Built
    /\ Len(warnings) = 2
    /\ \E k \in Range(m_basis_inds.vlen) :
            warnings[1] < Component(k).first /\ Component(k).first < warnings[2]

----------------------------------------------------------------------------
(* Construction *)

\* the points owning at least one true entry of the mask, by the mask's columns
OwningPoints(mask) ==
    {c \in Range(mask.num_cols) : \E r \in Range(mask.num_rows) : MatAt(mask, r, c)}

\* the c-th smallest element of the set S of numbers, c from 0
NthOf(S, c) == CHOOSE x \in S : Cardinality({y \in S : y < x}) = c

\* mat keeps exactly the columns of full that S names, in ascending order
IsColumnsOf(mat, full, S) ==
    /\ mat.num_rows = full.num_rows
    /\ mat.num_cols = Cardinality(S)
    /\ \A c \in Range(mat.num_cols), r \in Range(mat.num_rows) :
            MatAt(mat, r, c) = MatAt(full, r, NthOf(S, c))

\* the estimator's basis and mask are the owning-point columns of what was given
Resubsampled(given_basis) ==
    LET owning == OwningPoints(args.basis_mask)
    IN  IF Cardinality(owning) = args.data.num_cols
        THEN m_basis = given_basis /\ mask_arg = args.basis_mask
        ELSE /\ IsColumnsOf(m_basis, given_basis, owning)
             /\ IsColumnsOf(mask_arg, args.basis_mask, owning)

\* C11 as stated: construction from an explicit basis matrix plus mask uses the
\* basis as-is when there are as many owning points as data columns, and
\* otherwise re-subsamples basis and mask to the owning-point columns, so that
\* the basis keeps exactly as many columns as there are owning points.
C11_explicit_basis_is_resubsampled ==
    (Built /\ args.kind = "explicit") =>
        /\ Resubsampled(args.basis)
        /\ m_basis.num_cols = Cardinality(OwningPoints(args.basis_mask))

\* C11 amended: it is construction from data plus mask that uses the data as
\* basis as-is when every data point owns an active component and otherwise
\* re-subsamples data and mask to the owning-point columns; construction from an
\* explicit basis keeps the basis and the mask it was given.
C11_mask_construction_is_resubsampled ==
    /\ (Built /\ args.kind = "mask") =>
            /\ Resubsampled(args.data)
            /\ m_basis.num_cols = Cardinality(OwningPoints(args.basis_mask))
    /\ (Built /\ args.kind = "explicit") =>
            m_basis = args.basis /\ mask_arg = args.basis_mask

\* a mask-only construction that dropped some, but not all, columns
C11_witness ==
    /\ Built
    /\ args.kind = "mask"
    /\ m_basis.num_cols \in 1 .. (args.data.num_cols - 1)
    /\ OwningPoints(args.basis_mask) # Range(m_basis.num_cols)

\* C12: constructing an estimator with a basis mask whose shape differs from the
\* basis matrix (other number of rows than D, or other number of columns than
\* the basis) fails at construction: no estimator is produced, and none with a
\* populated m_basis_inds.
C12_ill_shaped_mask_is_rejected ==
    MaskMismatch(args) => (~Built /\ m_basis_inds.vlen = 0)

----------------------------------------------------------------------------
(* Basis point index set *)

\* C13: get_basis_point_inds(basis_inds) returns, ascending and without
\* duplicates, exactly the points idx / D of the indices of basis_inds; so every
\* index of m_basis_inds maps through idx_to_ai to a returned point, and there
\* are at most as many returned points as the basis has columns.
C13_basis_point_inds ==
    ret.op = "get_basis_point_inds" =>
        LET v == ret.val
            returned == {v[p] : p \in 1 .. Len(v)}
        IN  /\ \A p \in 1 .. (Len(v) - 1) : v[p] < v[p + 1]
            /\ returned = {ret.arg.vector[k] \div D_ : k \in Range(ret.arg.vlen)}
            /\ \A k \in Range(m_basis_inds.vlen) : Component(k).first \in returned
            /\ Len(v) <= get_num_basis(Self)

\* several points returned, one of them owning two components, one basis
\* column owning none
C13_witness ==
    /\ ret.op = "get_basis_point_inds"
    /\ Len(ret.val) >= 2
    /\ \E a \in Range(get_num_basis(Self)) : ActiveDims(a) >= 2
    /\ Len(ret.val) < get_num_basis(Self)

----------------------------------------------------------------------------
(* Parallel sections *)

\* the iterations run so far wrote pairwise disjoint output elements
DisjointWrites ==
    \A k1, k2 \in omp.done : k1 # k2 => omp.writes[k1] \cap omp.writes[k2] = {}

\* the iterations run so far read m_basis_inds inside the vector only
ReadsInsideInputs ==
    \A k \in omp.done : omp.reads[k] \subseteq Range(m_basis_inds.vlen)

\* what the method returns when its loop runs on one thread
SequentialResult(op) ==
    CASE op = "compute_h" -> compute_h(Self, CHOOSE oob \in OobChoices(Self) : TRUE)
      [] op = "compute_G_mn" -> compute_G_mn(Self)
      [] op = "compute_G_mm" -> compute_G_mm(Self)

\* C14: in the parallel loops of compute_h(), compute_G_mn() and compute_G_mm()
\* distinct iterations write pairwise disjoint output elements and read only
\* inputs that no iteration writes (m_basis_inds, data, kernel service), so the
\* returned vector or matrix is the same for every interleaving of the workers.
C14_parallel_loops_are_deterministic ==
    /\ omp.op # "none" => (DisjointWrites /\ ReadsInsideInputs)
    /\ ret.op \in {"compute_h", "compute_G_mn", "compute_G_mm"} =>
            ret.val = SequentialResult(ret.op)

----------------------------------------------------------------------------
(* Evaluator: log_pdf *)

\* C15: log_pdf(query) is the sum, over exactly the get_system_size() active
\* basis components k, each taken once, of
\* beta[k] * dx_component(point(k), query, dim(k)) with
\* (point(k), dim(k)) = idx_to_ai(m_basis_inds[k], D); the inactive (point,
\* dimension) pairs of the basis contribute nothing.
C15_log_pdf_sums_active_components ==
    ret.op = "log_pdf" =>
        LET query == ret.arg
            active[k \in Range(get_system_size(Self))] ==
                m_beta.vector[k]
                    * dx_component(Kernel(Self, 0), Component(k).first, query, Component(k).second)
            pair[p \in Range(get_num_basis(Self) * D_)] ==
                IF p \in IndSet
                THEN LET k == CHOOSE l \in Range(m_basis_inds.vlen) : m_basis_inds.vector[l] = p
                     IN  m_beta.vector[k] * dx_component(Kernel(Self, 0), p \div D_, query, p % D_)
                ELSE 0
        IN  /\ ret.val = SumFn(active, get_system_size(Self))
            /\ ret.val = SumFn(pair, get_num_basis(Self) * D_)

\* a log_pdf that is not zero, of an estimator with several components that
\* leaves out a component whose term would not be zero
C15_witness ==
    /\ ret.op = "log_pdf"
    /\ ret.val # 0
    /\ m_basis_inds.vlen >= 2
    /\ \E p \in Range(get_num_basis(Self) * D_) \ IndSet :
            dx_component(Kernel(Self, 0), p \div D_, ret.arg, p % D_) # 0

----------------------------------------------------------------------------
(* Mask-only construction *)

\* the number of true entries of a mask
TrueEntries(mask) ==
    Cardinality({p \in Range(mask.num_rows * mask.num_cols) : mask.matrix[p]})

\* C16: after NystromD(data, basis_mask, ...) returns, for any mask, every
\* column of the retained basis owns at least one active component, so the
\* construction emitted no unused-point warning, and get_system_size() is the
\* number of true entries of the caller's mask.
C16_mask_construction_leaves_no_unused_point ==
    (Built /\ args.kind = "mask") =>
        /\ \A c \in Range(get_num_basis(Self)) : ActiveDims(c) >= 1
        /\ warnings = << >>
        /\ get_system_size(Self) = TrueEntries(args.basis_mask)

\* a construction that dropped a point lying before a kept one, and kept
\* several components
C16_witness ==
    /\ Built
    /\ args.kind = "mask"
    /\ get_num_basis(Self) < args.data.num_cols
    /\ \E c \in OwningPoints(args.basis_mask) : c >= get_num_basis(Self)
    /\ get_system_size(Self) >= 2

============================================================================
